---- MODULE Spec2Model ----
(***************************************************************************)
(* Model of the dirsearch and nmap MCP tool providers and of the red_team  *)
(* aggregator.                                                             *)
(*                                                                         *)
(* Representation of Python values                                         *)
(*   - a token or an optional parameter is a tagged value:                 *)
(*     PyStr(s), PyInt(n) or PyNone;                                       *)
(*   - the text of a str token is a TLA+ string (built with \o);           *)
(*   - text that is scanned character by character (extra_args, process    *)
(*     output, error messages, file content) is a sequence of one-character*)
(*     strings.                                                            *)
(***************************************************************************)
EXTENDS Integers, Sequences, FiniteSets, TLC

VARIABLES
    pc,       \* position of each tool invocation
    req,      \* the request (provider, tool, parameters) being served
    args,     \* the list handed to _run_dirsearch / _run_nmap
    argv,     \* the list handed to subprocess.run
    runs,     \* number of subprocess.run calls made by the invocation
    spawnErr, \* errno of a failed process start ("" if none)
    result,   \* the CompletedProcess (returncode, stdout, stderr), once the process exited
    ret,      \* what the invocation returned or raised
    tmp,      \* name of the invocation's TemporaryDirectory (0: none)
    dirOwner, \* file system: temp dir name -> invocation that created it (0: absent)
    report,   \* file system: temp dir name -> its report.json
    agg,      \* position of the aggregator's __main__ block
    server,   \* lifecycle of the aggregator server
    setupRuns,\* number of times setup() was started
    mounted   \* namespaces imported into the aggregator

vars == <<pc, req, args, argv, runs, spawnErr, result, ret, tmp, dirOwner,
          report, agg, server, setupRuns, mounted>>

(***************************************************************************)
(* Bounds of the model                                                     *)
(***************************************************************************)
MaxArgLen == 3      \* longest extra_args string, in characters
NumInv == 2         \* concurrent tool invocations

Inv == 1..NumInv
DirNames == 1..NumInv   \* names mkdtemp can draw; one per possible invocation

(***************************************************************************)
(* Python values                                                           *)
(***************************************************************************)
PyStr(s) == [type |-> "str", val |-> s]
PyInt(n) == [type |-> "int", val |-> n]
PyNone == [type |-> "NoneType", val |-> "None"]

\* bool(x) of an optional int or str
Truthy(x) ==
    CASE x.type = "NoneType" -> FALSE
      [] x.type = "int" -> x.val # 0
      [] x.type = "str" -> x.val # ""

Digit(d) ==
    CASE d = 0 -> "0" [] d = 1 -> "1" [] d = 2 -> "2" [] d = 3 -> "3"
      [] d = 4 -> "4" [] d = 5 -> "5" [] d = 6 -> "6" [] d = 7 -> "7"
      [] d = 8 -> "8" [] d = 9 -> "9"

RECURSIVE NatToChars(_)
NatToChars(n) ==
    IF n < 10 THEN <<Digit(n)>>
    ELSE NatToChars(n \div 10) \o <<Digit(n % 10)>>

\* str(n) as a sequence of characters
IntToChars(n) == IF n < 0 THEN <<"-">> \o NatToChars(-n) ELSE NatToChars(n)

RECURSIVE Join(_)
Join(cs) == IF cs = <<>> THEN "" ELSE Head(cs) \o Join(Tail(cs))

\* str(x) of a tagged value, as a TLA+ string
StrOf(x) ==
    CASE x.type = "NoneType" -> "None"
      [] x.type = "int" -> Join(IntToChars(x.val))
      [] x.type = "str" -> x.val

(***************************************************************************)
(* shlex.split(s): posix mode, whitespace_split, no comment characters     *)
(***************************************************************************)
\* shlex.whitespace: space, tab, carriage return, line feed
Whitespace == {" ", "\t", "\r", "\n"}
Quotes == {"'", "\""}
Escape == {"\\"}
EscapedQuotes == {"\""}

ShlexOk(toks) == [ok |-> TRUE, tokens |-> toks, error |-> ""]
ShlexErr(msg) == [ok |-> FALSE, tokens |-> <<>>, error |-> msg]

RECURSIVE ShlexScan(_, _, _, _, _, _, _)
ShlexScan(s, i, st, tok, quoted, esc, out) ==
    IF i > Len(s) THEN
        CASE st = " " -> ShlexOk(out)
          [] st \in Quotes -> ShlexErr("No closing quotation")
          [] st \in Escape -> ShlexErr("No escaped character")
          [] st = "a" ->
                ShlexOk(IF tok # "" \/ quoted THEN Append(out, PyStr(tok)) ELSE out)
    ELSE
        LET c == s[i] IN
        CASE st = " " ->
                IF c \in Whitespace THEN ShlexScan(s, i + 1, " ", tok, quoted, esc, out)
                ELSE IF c \in Escape THEN ShlexScan(s, i + 1, c, tok, quoted, "a", out)
                ELSE IF c \in Quotes THEN ShlexScan(s, i + 1, c, tok, quoted, esc, out)
                ELSE ShlexScan(s, i + 1, "a", c, quoted, esc, out)
          [] st \in Quotes ->
                IF c = st THEN ShlexScan(s, i + 1, "a", tok, TRUE, esc, out)
                ELSE IF c \in Escape /\ st \in EscapedQuotes
                     THEN ShlexScan(s, i + 1, c, tok, TRUE, st, out)
                ELSE ShlexScan(s, i + 1, st, tok \o c, TRUE, esc, out)
          [] st \in Escape ->
                LET kept == IF esc \in Quotes /\ c # st /\ c # esc THEN st ELSE ""
                IN ShlexScan(s, i + 1, esc, (tok \o kept) \o c, quoted, esc, out)
          [] st = "a" ->
                IF c \in Whitespace THEN
                    IF tok # "" \/ quoted
                    THEN ShlexScan(s, i + 1, " ", "", FALSE, esc, Append(out, PyStr(tok)))
                    ELSE ShlexScan(s, i + 1, " ", tok, quoted, esc, out)
                ELSE IF c \in Quotes THEN ShlexScan(s, i + 1, c, tok, quoted, esc, out)
                ELSE IF c \in Escape THEN ShlexScan(s, i + 1, c, tok, quoted, "a", out)
                ELSE ShlexScan(s, i + 1, "a", tok \o c, quoted, esc, out)

ShlexSplit(s) == ShlexScan(s, 1, " ", "", FALSE, "", <<>>)

(***************************************************************************)
(* Parameter values the tools are called with                              *)
(***************************************************************************)
DefaultThreads == 20
DeepThreads == 40
DefaultMaxDepth == 3
DefaultExtensions == "php,asp,aspx,jsp,html,js,txt"

Alphabet == {"a", " ", "\t", "'", "\"", "\\"}
ExtraArgs == UNION {[1..n -> Alphabet] : n \in 0..MaxArgLen}

Urls == {PyStr("http://t"), PyStr("--include-status")}
Extensions == {PyNone, PyStr(""), PyStr(DefaultExtensions), PyStr("200-399")}
Threads == {PyNone, PyInt(0), PyInt(DefaultThreads), PyInt(DeepThreads)}
MaxDepths == {PyNone, PyInt(0), PyInt(DefaultMaxDepth)}
Subdirs == {PyStr("admin/")}
Wordlists == {PyStr("w.txt")}
Proxies == {PyStr("127.0.0.1:8080")}
AuthCreds == {PyStr("u:p")}
AuthTypes == {PyStr("basic"), PyStr("digest")}

Targets == {PyStr("10.0.0.1"), PyStr("-sn")}
Networks == {PyStr("10.0.0.0/24"), PyStr("-Pn")}
Ports == {PyStr("1-1000"), PyStr("22,80")}
Timings == {PyNone, PyStr("T3"), PyStr("T4")}

(***************************************************************************)
(* Argument builders of the dirsearch provider                             *)
(***************************************************************************)
Built(a) == [ok |-> TRUE, args |-> a, exc |-> "", msg |-> ""]
BuildFailed(e, m) == [ok |-> FALSE, args |-> <<>>, exc |-> e, msg |-> m]

StatusFilter == <<PyStr("--include-status"), PyStr("200-399")>>

\* variants of BaseArgs with the status-filter decision wrong
BaseArgsInverted(threads, include_errors) ==
    <<PyStr("-q")>>
    \o (IF Truthy(threads) THEN <<PyStr("-t"), PyStr(StrOf(threads))>> ELSE <<>>)
    \o (IF include_errors THEN StatusFilter ELSE <<>>)

BaseArgsAlwaysFilter(threads, include_errors) ==
    <<PyStr("-q")>>
    \o (IF Truthy(threads) THEN <<PyStr("-t"), PyStr(StrOf(threads))>> ELSE <<>>)
    \o StatusFilter

BaseArgs(threads, include_errors) ==
    <<PyStr("-q")>>
    \o (IF Truthy(threads) THEN <<PyStr("-t"), PyStr(StrOf(threads))>> ELSE <<>>)
    \o (IF ~include_errors THEN StatusFilter ELSE <<>>)

QuickScanArgs(p) ==
    Built(BaseArgs(p.threads, p.show_errors)
          \o <<PyStr("-u"), p.url, PyStr("-e"), p.extensions>>)

RecursiveScanArgs(p) ==
    Built(BaseArgs(p.threads, p.show_errors)
          \o <<PyStr("-u"), p.url, PyStr("-e"), p.extensions, PyStr("-r")>>
          \o (IF p.max_depth.type # "NoneType"
              THEN <<PyStr("-R"), PyStr(StrOf(p.max_depth))>> ELSE <<>>))

DeepRecursiveScanArgs(p) ==
    Built(BaseArgs(p.threads, p.show_errors)
          \o <<PyStr("-u"), p.url, PyStr("-e"), p.extensions, PyStr("--deep-recursive")>>)

SubdirsScanArgs(p) ==
    Built(BaseArgs(p.threads, p.show_errors)
          \o <<PyStr("-u"), p.url, PyStr("-e"), p.extensions,
               PyStr("--subdirs"), p.subdirs>>)

WordlistScanArgs(p) ==
    Built(BaseArgs(p.threads, p.show_errors)
          \o <<PyStr("-u"), p.url, PyStr("-w"), p.wordlists>>
          \o (IF Truthy(p.extensions) THEN <<PyStr("-e"), p.extensions>> ELSE <<>>))

\* mkdtemp's directory name and os.path.join(tmp, "report.json")
TmpPath(d) == "/tmp/tmp" \o Join(IntToChars(d))
ReportPath(d) == TmpPath(d) \o "/report.json"

JsonReportScanArgs(p, d) ==
    Built(BaseArgs(p.threads, p.show_errors)
          \o <<PyStr("-u"), p.url, PyStr("-e"), p.extensions,
               PyStr("--format"), PyStr("json"), PyStr("-o"), PyStr(ReportPath(d))>>)

ProxyScanArgs(p) ==
    Built(BaseArgs(p.threads, p.show_errors)
          \o <<PyStr("-u"), p.url, PyStr("-e"), p.extensions, PyStr("--proxy"), p.proxy>>)

AuthenticatedScanArgs(p) ==
    Built(BaseArgs(p.threads, TRUE)
          \o <<PyStr("-u"), p.url, PyStr("-e"), p.extensions,
               PyStr("--auth"), p.auth_cred, PyStr("--auth-type"), p.auth_type>>)

\* variant of custom_scan that swallows the parse error and runs the base flags
DirsearchCustomScanArgsLenient(p) ==
    LET base == BaseArgs(PyInt(DefaultThreads), TRUE) \o <<PyStr("-u"), p.url>>
        parsed == ShlexSplit(p.extra_args)
    IN IF parsed.ok THEN Built(base \o parsed.tokens) ELSE Built(base)

DirsearchCustomScanArgs(p) ==
    LET base == BaseArgs(PyInt(DefaultThreads), TRUE) \o <<PyStr("-u"), p.url>>
        parsed == ShlexSplit(p.extra_args)
    IN IF parsed.ok THEN Built(base \o parsed.tokens)
       ELSE BuildFailed("ValueError", parsed.error)

(***************************************************************************)
(* Argument builders of the nmap provider                                  *)
(***************************************************************************)
\* variant of _add_pn that appends the flag
AddPnLast(a) == a \o <<PyStr("-Pn")>>

AddPn(a) == <<PyStr("-Pn")>> \o a

\* f"-{timing}"
TimingFlag(timing) == PyStr("-" \o StrOf(timing))

FullPortScanArgs(p) ==
    Built(AddPn(<<PyStr("-sS"), PyStr("-p"), PyStr("1-65535"), TimingFlag(p.timing), p.target>>))

StealthSynScanArgs(p) ==
    Built(AddPn(<<PyStr("-sS"), PyStr("-p"), p.ports, TimingFlag(p.timing), p.target>>))

TcpConnectScanArgs(p) ==
    Built(AddPn(<<PyStr("-sT"), PyStr("-p"), p.ports, TimingFlag(p.timing), p.target>>))

UdpScanArgs(p) ==
    Built(AddPn(<<PyStr("-sU"), PyStr("-p"), p.ports, TimingFlag(p.timing), p.target>>))

OsDetectionScanArgs(p) ==
    LET a == <<PyStr("-O"), p.target>>
    IN Built(AddPn(IF p.quick THEN <<PyStr("-F")>> \o a ELSE a))

PingSweepArgs(p) == Built(<<PyStr("-sn"), p.network>>)

AggressiveScanArgs(p) == Built(AddPn(<<PyStr("-A"), p.target>>))

NmapCustomScanArgs(p) ==
    LET parsed == ShlexSplit(p.extra_args)
    IN IF parsed.ok THEN Built(AddPn(parsed.tokens \o <<p.target>>))
       ELSE BuildFailed("ValueError", parsed.error)

(***************************************************************************)
(* Requests: one set per tool                                              *)
(***************************************************************************)
Req(prov, t, params) == [provider |-> prov, tool |-> t, p |-> params]
NoReq == Req("", "", <<>>)

QuickScanReqs ==
    {Req("dirsearch", "quick_scan",
         [url |-> u, extensions |-> e, threads |-> t, show_errors |-> s]) :
        u \in Urls, e \in Extensions, t \in Threads, s \in BOOLEAN}
RecursiveScanReqs ==
    {Req("dirsearch", "recursive_scan",
         [url |-> u, extensions |-> e, max_depth |-> m, threads |-> t, show_errors |-> s]) :
        u \in Urls, e \in Extensions, m \in MaxDepths, t \in Threads, s \in BOOLEAN}
DeepRecursiveScanReqs ==
    {Req("dirsearch", "deep_recursive_scan",
         [url |-> u, extensions |-> e, threads |-> t, show_errors |-> s]) :
        u \in Urls, e \in Extensions, t \in Threads, s \in BOOLEAN}
SubdirsScanReqs ==
    {Req("dirsearch", "subdirs_scan",
         [url |-> u, subdirs |-> d, extensions |-> e, threads |-> t, show_errors |-> s]) :
        u \in Urls, d \in Subdirs, e \in Extensions, t \in Threads, s \in BOOLEAN}
WordlistScanReqs ==
    {Req("dirsearch", "wordlist_scan",
         [url |-> u, wordlists |-> w, extensions |-> e, threads |-> t, show_errors |-> s]) :
        u \in Urls, w \in Wordlists, e \in Extensions, t \in Threads, s \in BOOLEAN}
JsonReportScanReqs ==
    {Req("dirsearch", "json_report_scan",
         [url |-> u, extensions |-> e, threads |-> t, show_errors |-> s]) :
        u \in Urls, e \in Extensions, t \in Threads, s \in BOOLEAN}
ProxyScanReqs ==
    {Req("dirsearch", "proxy_scan",
         [url |-> u, proxy |-> x, extensions |-> e, threads |-> t, show_errors |-> s]) :
        u \in Urls, x \in Proxies, e \in Extensions, t \in Threads, s \in BOOLEAN}
AuthenticatedScanReqs ==
    {Req("dirsearch", "authenticated_scan",
         [url |-> u, auth_cred |-> c, auth_type |-> a, extensions |-> e, threads |-> t]) :
        u \in Urls, c \in AuthCreds, a \in AuthTypes, e \in Extensions, t \in Threads}
DirsearchCustomScanReqs ==
    {Req("dirsearch", "custom_scan", [url |-> u, extra_args |-> x]) :
        u \in Urls, x \in ExtraArgs}

FullPortScanReqs ==
    {Req("nmap", "full_port_scan", [target |-> g, timing |-> t]) :
        g \in Targets, t \in Timings}
StealthSynScanReqs ==
    {Req("nmap", "stealth_syn_scan", [target |-> g, ports |-> q, timing |-> t]) :
        g \in Targets, q \in Ports, t \in Timings}
TcpConnectScanReqs ==
    {Req("nmap", "tcp_connect_scan", [target |-> g, ports |-> q, timing |-> t]) :
        g \in Targets, q \in Ports, t \in Timings}
UdpScanReqs ==
    {Req("nmap", "udp_scan", [target |-> g, ports |-> q, timing |-> t]) :
        g \in Targets, q \in Ports, t \in Timings}
OsDetectionScanReqs ==
    {Req("nmap", "os_detection_scan", [target |-> g, quick |-> q]) :
        g \in Targets, q \in BOOLEAN}
PingSweepReqs ==
    {Req("nmap", "ping_sweep", [network |-> n]) : n \in Networks}
AggressiveScanReqs ==
    {Req("nmap", "aggressive_scan", [target |-> g]) : g \in Targets}
NmapCustomScanReqs ==
    {Req("nmap", "custom_scan", [target |-> g, extra_args |-> x]) :
        g \in Targets, x \in ExtraArgs}

(***************************************************************************)
(* Process invoker: _run_dirsearch and _run_nmap                           *)
(***************************************************************************)
Binary(prov) == IF prov = "dirsearch" THEN "dirsearch" ELSE "nmap"

\* the literal text that opens the RuntimeError message
ExitedWith(prov) ==
    IF prov = "dirsearch"
    THEN <<"d","i","r","s","e","a","r","c","h"," ","e","x","i","t","e","d"," ","w","i","t","h"," ">>
    ELSE <<"N","m","a","p"," ","e","x","i","t","e","d"," ","w","i","t","h"," ">>

\* variant of the diagnostic choice: result.stdout or result.stderr
DiagnosticStdoutFirst(stderr, stdout) == IF stdout # <<>> THEN stdout ELSE stderr

\* result.stderr or result.stdout
Diagnostic(stderr, stdout) == IF stderr # <<>> THEN stderr ELSE stdout

\* f"... exited with {result.returncode}:\n{result.stderr or result.stdout}"
ErrorMessage(prov, rc, stdout, stderr) ==
    ExitedWith(prov) \o IntToChars(rc) \o <<":", "\n">> \o Diagnostic(stderr, stdout)

NoRet == [kind |-> "none", exc |-> "", text |-> <<>>, msg |-> ""]
Return(t) == [kind |-> "return", exc |-> "", text |-> t, msg |-> ""]
Raise(e, t, m) == [kind |-> "raise", exc |-> e, text |-> t, msg |-> m]

Completed(rc, o, e) == [exited |-> TRUE, returncode |-> rc, stdout |-> o, stderr |-> e]
NoResult == [exited |-> FALSE, returncode |-> 0, stdout |-> <<>>, stderr |-> <<>>]

\* what _run_* does with the CompletedProcess
RunOutcome(prov, cp) ==
    IF cp.returncode # 0
    THEN Raise("RuntimeError", ErrorMessage(prov, cp.returncode, cp.stdout, cp.stderr), "")
    ELSE Return(cp.stdout)

\* subprocess.run rejects an argv element that is not a str
AllStr(seq) == \A k \in 1..Len(seq) : seq[k].type = "str"

\* variant in which the invoker wraps a failed start in its own error
SpawnFailureExcWrapped(errno) == "RuntimeError"

\* the exception a failed process start surfaces as: subprocess.run's OSError
\* subclass, which neither invoker catches
SpawnFailureExc(errno) ==
    IF errno = "ENOENT" THEN "FileNotFoundError" ELSE "PermissionError"

SpawnErrnos == {"ENOENT", "EACCES"}

ExitCodes == {0, 1, 2, -9}
Stdouts == {<<>>, <<"X">>}
Stderrs == {<<>>, <<"e", "r", "r">>}
ReportTexts == {<<"{", "}">>, <<>>}

NoFile == [exists |-> FALSE, data |-> <<>>]
File(t) == [exists |-> TRUE, data |-> t]

\* what the external process may do: exit code, output, and the report it
\* may write to the path given with -o
Outcomes ==
    {[cp |-> Completed(rc, o, e), wrote |-> w, data |-> t] :
        rc \in ExitCodes, o \in Stdouts, e \in Stderrs,
        w \in BOOLEAN, t \in ReportTexts}

IsJson(r) == r.provider = "dirsearch" /\ r.tool = "json_report_scan"

\* variant of the json tool that removes the directory only after a return
PcAfterRunNoCleanup(json, r) ==
    IF json THEN (IF r.kind = "raise" THEN "done" ELSE "read") ELSE "done"

\* variant that runs the binary again after a non-zero exit
PcAfterRunRetry(json, r) ==
    IF r.kind = "raise" /\ r.exc = "RuntimeError" THEN "run"
    ELSE IF json THEN (IF r.kind = "raise" THEN "cleanup" ELSE "read") ELSE "done"

\* where control goes when _run_* returns or raises inside the tool: the
\* json tool's with-block reads the report after a return and unwinds through
\* TemporaryDirectory.__exit__ after a raise; every other tool is finished
PcAfterRun(json, r) ==
    IF json THEN (IF r.kind = "raise" THEN "cleanup" ELSE "read") ELSE "done"

\* tempfile.mkdtemp draws a name that does not exist yet
Mkdtemp(owner) == {d \in DirNames : owner[d] = 0}

(***************************************************************************)
(* Initial state: providers ready, no invocation in progress, no temporary *)
(* directory, aggregator not started                                       *)
(***************************************************************************)
Init ==
    /\ pc = [i \in Inv |-> "idle"]
    /\ req = [i \in Inv |-> NoReq]
    /\ args = [i \in Inv |-> <<>>]
    /\ argv = [i \in Inv |-> <<>>]
    /\ runs = [i \in Inv |-> 0]
    /\ spawnErr = [i \in Inv |-> ""]
    /\ result = [i \in Inv |-> NoResult]
    /\ ret = [i \in Inv |-> NoRet]
    /\ tmp = [i \in Inv |-> 0]
    /\ dirOwner = [d \in DirNames |-> 0]
    /\ report = [d \in DirNames |-> NoFile]
    /\ agg = "not_started"
    /\ server = "not_started"
    /\ setupRuns = 0
    /\ mounted = {}

aggVars == <<agg, server, setupRuns, mounted>>
fsVars == <<tmp, dirOwner, report>>

(***************************************************************************)
(* Tool handlers, up to the call of the process invoker                    *)
(***************************************************************************)
\* the tool evaluates its argument expression b, then calls _run_*(b.args);
\* an exception in the expression leaves the tool before the call
Invoke(i, r, b) ==
    /\ pc[i] = "idle"
    /\ req' = [req EXCEPT ![i] = r]
    /\ IF b.ok
       THEN /\ args' = [args EXCEPT ![i] = b.args]
            /\ pc' = [pc EXCEPT ![i] = "run"]
            /\ ret' = ret
       ELSE /\ args' = args
            /\ pc' = [pc EXCEPT ![i] = "done"]
            /\ ret' = [ret EXCEPT ![i] = Raise(b.exc, <<>>, b.msg)]
    /\ UNCHANGED <<argv, runs, spawnErr, result, fsVars, aggVars>>

QuickScan(i) == \E r \in QuickScanReqs : Invoke(i, r, QuickScanArgs(r.p))
RecursiveScan(i) == \E r \in RecursiveScanReqs : Invoke(i, r, RecursiveScanArgs(r.p))
DeepRecursiveScan(i) ==
    \E r \in DeepRecursiveScanReqs : Invoke(i, r, DeepRecursiveScanArgs(r.p))
SubdirsScan(i) == \E r \in SubdirsScanReqs : Invoke(i, r, SubdirsScanArgs(r.p))
WordlistScan(i) == \E r \in WordlistScanReqs : Invoke(i, r, WordlistScanArgs(r.p))
ProxyScan(i) == \E r \in ProxyScanReqs : Invoke(i, r, ProxyScanArgs(r.p))
AuthenticatedScan(i) ==
    \E r \in AuthenticatedScanReqs : Invoke(i, r, AuthenticatedScanArgs(r.p))
DirsearchCustomScan(i) ==
    \E r \in DirsearchCustomScanReqs : Invoke(i, r, DirsearchCustomScanArgs(r.p))

FullPortScan(i) == \E r \in FullPortScanReqs : Invoke(i, r, FullPortScanArgs(r.p))
StealthSynScan(i) == \E r \in StealthSynScanReqs : Invoke(i, r, StealthSynScanArgs(r.p))
TcpConnectScan(i) == \E r \in TcpConnectScanReqs : Invoke(i, r, TcpConnectScanArgs(r.p))
UdpScan(i) == \E r \in UdpScanReqs : Invoke(i, r, UdpScanArgs(r.p))
OsDetectionScan(i) ==
    \E r \in OsDetectionScanReqs : Invoke(i, r, OsDetectionScanArgs(r.p))
PingSweep(i) == \E r \in PingSweepReqs : Invoke(i, r, PingSweepArgs(r.p))
AggressiveScan(i) == \E r \in AggressiveScanReqs : Invoke(i, r, AggressiveScanArgs(r.p))
NmapCustomScan(i) == \E r \in NmapCustomScanReqs : Invoke(i, r, NmapCustomScanArgs(r.p))

\* json_report_scan enters its TemporaryDirectory, then builds the arguments
\* around the report path inside it
JsonReportScanFrom(i, reqs) ==
    \E r \in reqs, d \in Mkdtemp(dirOwner) :
        LET b == JsonReportScanArgs(r.p, d) IN
        /\ pc[i] = "idle"
        /\ req' = [req EXCEPT ![i] = r]
        /\ tmp' = [tmp EXCEPT ![i] = d]
        /\ dirOwner' = [dirOwner EXCEPT ![d] = i]
        /\ report' = [report EXCEPT ![d] = NoFile]
        /\ args' = [args EXCEPT ![i] = b.args]
        /\ pc' = [pc EXCEPT ![i] = "run"]
        /\ UNCHANGED <<argv, runs, spawnErr, result, ret, aggVars>>

JsonReportScan(i) == JsonReportScanFrom(i, JsonReportScanReqs)

(***************************************************************************)
(* subprocess.run, in two steps: the process is started, the process exits *)
(***************************************************************************)
RunStart(i) ==
    /\ pc[i] = "run"
    /\ LET a == <<PyStr(Binary(req[i].provider))>> \o args[i]
           json == IsJson(req[i])
       IN /\ argv' = [argv EXCEPT ![i] = a]
          /\ runs' = [runs EXCEPT ![i] = @ + 1]
          /\ IF ~AllStr(a)
             THEN /\ ret' = [ret EXCEPT ![i] = Raise("TypeError", <<>>, "")]
                  /\ pc' = [pc EXCEPT ![i] = PcAfterRun(json, ret'[i])]
                  /\ spawnErr' = spawnErr
             ELSE \/ \E e \in SpawnErrnos :
                        /\ spawnErr' = [spawnErr EXCEPT ![i] = e]
                        /\ ret' = [ret EXCEPT ![i] = Raise(SpawnFailureExc(e), <<>>, e)]
                        /\ pc' = [pc EXCEPT ![i] = PcAfterRun(json, ret'[i])]
                  \/ /\ pc' = [pc EXCEPT ![i] = "wait"]
                     /\ UNCHANGED <<spawnErr, ret>>
    /\ UNCHANGED <<req, args, result, fsVars, aggVars>>

RunExitWith(i, outcomes) ==
    /\ pc[i] = "wait"
    /\ \E x \in outcomes :
        LET json == IsJson(req[i])
            r == RunOutcome(req[i].provider, x.cp)
        IN /\ (~json => ~x.wrote /\ x.data = <<>>)
           /\ result' = [result EXCEPT ![i] = x.cp]
           /\ report' = IF json /\ x.wrote /\ dirOwner[tmp[i]] # 0
                        THEN [report EXCEPT ![tmp[i]] = File(x.data)]
                        ELSE report
           /\ ret' = [ret EXCEPT ![i] = IF json /\ r.kind = "return" THEN NoRet ELSE r]
           /\ pc' = [pc EXCEPT ![i] = PcAfterRun(json, r)]
    /\ UNCHANGED <<req, args, argv, runs, spawnErr, tmp, dirOwner, aggVars>>

RunExit(i) == RunExitWith(i, Outcomes)

(***************************************************************************)
(* json_report_scan after the run: read the report, leave the with-block   *)
(***************************************************************************)
ReadReport(i) ==
    /\ pc[i] = "read"
    /\ ret' = [ret EXCEPT ![i] =
                 IF dirOwner[tmp[i]] # 0 /\ report[tmp[i]].exists
                 THEN Return(report[tmp[i]].data)
                 ELSE Raise("FileNotFoundError", <<>>, "ENOENT")]
    /\ pc' = [pc EXCEPT ![i] = "cleanup"]
    /\ UNCHANGED <<req, args, argv, runs, spawnErr, result, fsVars, aggVars>>

\* TemporaryDirectory.__exit__: remove the directory and what it holds
Cleanup(i) ==
    /\ pc[i] = "cleanup"
    /\ dirOwner' = [dirOwner EXCEPT ![tmp[i]] = 0]
    /\ report' = [report EXCEPT ![tmp[i]] = NoFile]
    /\ pc' = [pc EXCEPT ![i] = "done"]
    /\ UNCHANGED <<req, args, argv, runs, spawnErr, result, ret, tmp, aggVars>>

\* the tool has returned or raised; the protocol layer answers the caller and
\* the invocation's locals are gone
Respond(i) ==
    /\ pc[i] = "done"
    /\ pc' = [pc EXCEPT ![i] = "idle"]
    /\ req' = [req EXCEPT ![i] = NoReq]
    /\ args' = [args EXCEPT ![i] = <<>>]
    /\ argv' = [argv EXCEPT ![i] = <<>>]
    /\ runs' = [runs EXCEPT ![i] = 0]
    /\ spawnErr' = [spawnErr EXCEPT ![i] = ""]
    /\ result' = [result EXCEPT ![i] = NoResult]
    /\ ret' = [ret EXCEPT ![i] = NoRet]
    /\ tmp' = [tmp EXCEPT ![i] = 0]
    /\ UNCHANGED <<dirOwner, report, aggVars>>

(***************************************************************************)
(* Both providers serving one request at a time, every tool and parameter  *)
(***************************************************************************)
Next ==
    \E i \in {1} :
        \/ QuickScan(i) \/ RecursiveScan(i) \/ DeepRecursiveScan(i)
        \/ SubdirsScan(i) \/ WordlistScan(i) \/ JsonReportScan(i)
        \/ ProxyScan(i) \/ AuthenticatedScan(i) \/ DirsearchCustomScan(i)
        \/ FullPortScan(i) \/ StealthSynScan(i) \/ TcpConnectScan(i)
        \/ UdpScan(i) \/ OsDetectionScan(i) \/ PingSweep(i)
        \/ AggressiveScan(i) \/ NmapCustomScan(i)
        \/ RunStart(i) \/ RunExit(i) \/ ReadReport(i) \/ Cleanup(i) \/ Respond(i)

Spec == Init /\ [][Next]_vars

(***************************************************************************)
(* Concurrent json_report_scan invocations, as the protocol host may run   *)
(* them on separate workers                                                *)
(***************************************************************************)
JsonConcurrentReqs ==
    {Req("dirsearch", "json_report_scan",
         [url |-> PyStr("http://t"), extensions |-> e,
          threads |-> PyInt(DefaultThreads), show_errors |-> FALSE]) :
        e \in {PyNone, PyStr(DefaultExtensions)}}

JsonConcurrentOutcomes ==
    {x \in Outcomes : /\ x.cp.returncode \in {0, 2}
                      /\ x.cp.stdout = <<>>
                      /\ x.cp.stderr = <<"e", "r", "r">>
                      /\ x.data = <<"{", "}">>}

JsonCall(i) == JsonReportScanFrom(i, JsonConcurrentReqs)
JsonExit(i) == RunExitWith(i, JsonConcurrentOutcomes)

NextJson ==
    \E i \in Inv :
        \/ JsonCall(i) \/ RunStart(i) \/ JsonExit(i)
        \/ ReadReport(i) \/ Cleanup(i) \/ Respond(i)

SpecJson == Init /\ [][NextJson]_vars

(***************************************************************************)
(* The aggregator: asyncio.run(setup()), then red_team.run()               *)
(***************************************************************************)
\* asyncio.run(setup()) is entered
SetupBegin ==
    /\ agg = "not_started"
    /\ agg' = "setup"
    /\ setupRuns' = setupRuns + 1
    /\ UNCHANGED <<pc, req, args, argv, runs, spawnErr, result, ret, fsVars,
                   server, mounted>>

\* Client("nmap.py") and FastMCP.from_client
SetupConnect ==
    /\ agg = "setup"
    /\ agg' = "connected"
    /\ UNCHANGED <<pc, req, args, argv, runs, spawnErr, result, ret, fsVars,
                   server, setupRuns, mounted>>

\* await red_team.import_server("nmap", nmap_proxy); setup() returns
SetupImport ==
    /\ agg = "connected"
    /\ agg' = "setup_done"
    /\ mounted' = mounted \cup {"nmap"}
    /\ UNCHANGED <<pc, req, args, argv, runs, spawnErr, result, ret, fsVars,
                   server, setupRuns>>

\* a step of setup() raises: asyncio.run re-raises and the script ends
SetupFail ==
    /\ agg \in {"setup", "connected"}
    /\ agg' = "crashed"
    /\ UNCHANGED <<pc, req, args, argv, runs, spawnErr, result, ret, fsVars,
                   server, setupRuns, mounted>>

\* variant that starts serving without waiting for setup() to succeed
CanRunAnyway(a) == a \in {"setup", "connected", "setup_done", "crashed"}

\* red_team.run() is the statement after asyncio.run(setup())
CanRun(a) == a = "setup_done"

AggRun ==
    /\ CanRun(agg)
    /\ server = "not_started"
    /\ agg' = "serving"
    /\ server' = "running"
    /\ UNCHANGED <<pc, req, args, argv, runs, spawnErr, result, ret, fsVars,
                   setupRuns, mounted>>

\* red_team.run() returns
AggStop ==
    /\ agg = "serving"
    /\ agg' = "exited"
    /\ server' = "stopped"
    /\ UNCHANGED <<pc, req, args, argv, runs, spawnErr, result, ret, fsVars,
                   setupRuns, mounted>>

\* a request for a tool mounted under the "nmap" namespace is forwarded to
\* the nmap provider
AggServe(i) ==
    /\ server = "running"
    /\ "nmap" \in mounted
    /\ \/ FullPortScan(i) \/ StealthSynScan(i) \/ TcpConnectScan(i)
       \/ UdpScan(i) \/ OsDetectionScan(i) \/ PingSweep(i)
       \/ AggressiveScan(i) \/ NmapCustomScan(i)

NextAgg ==
    \/ SetupBegin \/ SetupConnect \/ SetupImport \/ SetupFail
    \/ AggRun \/ AggStop
    \/ \E i \in {1} : AggServe(i) \/ RunStart(i) \/ RunExit(i) \/ Respond(i)

SpecAgg == Init /\ [][NextAgg]_vars

(***************************************************************************)
(* Properties                                                              *)
(***************************************************************************)
\* sub occurs in text as a contiguous run of characters
Contains(text, sub) ==
    \E k \in 0..(Len(text) - Len(sub)) : SubSeq(text, k + 1, k + Len(sub)) = sub

\* the adjacent tokens "--include-status", "200-399" occur in seq
HasFilter(seq) ==
    \E k \in 1..(Len(seq) - 1) :
        seq[k] = StatusFilter[1] /\ seq[k + 1] = StatusFilter[2]

ShowErrorsTools ==
    {"quick_scan", "recursive_scan", "deep_recursive_scan", "subdirs_scan",
     "wordlist_scan", "json_report_scan", "proxy_scan"}

IsDirsearch(i) == req[i].provider = "dirsearch"
IsNmap(i) == req[i].provider = "nmap"
IsCustom(i) == req[i].tool = "custom_scan"

\* the call of this invocation asks for all status codes with show_errors=True
ShowErrorsRequested(i) == req[i].tool \in ShowErrorsTools /\ req[i].p.show_errors

\* C1: every nmap tool hands the binary "-Pn" as its first argument, except
\* ping_sweep, whose arguments are exactly "-sn" and the network.
C1_PnFirstExceptPingSweep ==
    \A i \in Inv :
        (IsNmap(i) /\ argv[i] # <<>>) =>
            IF req[i].tool = "ping_sweep"
            THEN argv[i] = <<PyStr("nmap"), PyStr("-sn"), req[i].p.network>>
            ELSE Len(argv[i]) >= 2 /\ argv[i][2] = PyStr("-Pn")

C1_Witness ==
    \E i \in Inv :
        /\ IsNmap(i) /\ IsCustom(i) /\ pc[i] = "wait"
        /\ req[i].p.extra_args = <<"a", "\t", "a">>
        /\ argv[i] = <<PyStr("nmap"), PyStr("-Pn"), PyStr("a"), PyStr("a"), req[i].p.target>>

\* C2 as stated: every dirsearch tool's tokens contain the default status
\* filter unless the call passes show_errors=True.
C2_FilterUnlessShowErrors ==
    \A i \in Inv :
        (IsDirsearch(i) /\ argv[i] # <<>> /\ ~ShowErrorsRequested(i)) =>
            HasFilter(argv[i])

\* C2 amended: every dirsearch tool that takes show_errors hands the binary
\* the default status filter unless the call passes show_errors=True.
C2_FilterUnlessShowErrorsWhereOffered ==
    \A i \in Inv :
        (/\ IsDirsearch(i) /\ argv[i] # <<>>
         /\ req[i].tool \in ShowErrorsTools
         /\ ~req[i].p.show_errors) =>
            HasFilter(argv[i])

C2_Witness ==
    \E i \in Inv :
        /\ IsDirsearch(i) /\ req[i].tool = "wordlist_scan" /\ pc[i] = "wait"
        /\ ~req[i].p.show_errors
        /\ req[i].p.threads = PyNone
        /\ HasFilter(argv[i])

\* C3: a completed run with exit code 0 returns exactly stdout and does not
\* raise the execution error; with a non-zero exit code it raises RuntimeError
\* whose message contains the code, and stderr if that is non-empty, else stdout.
C3_InvokerOutcome ==
    \A i \in Inv :
        result[i].exited =>
            LET cp == result[i] IN
            IF cp.returncode = 0
            THEN /\ ret[i].exc # "RuntimeError"
                 /\ ~IsJson(req[i]) => ret[i] = Return(cp.stdout)
            ELSE /\ ret[i].kind = "raise"
                 /\ ret[i].exc = "RuntimeError"
                 /\ Contains(ret[i].text, IntToChars(cp.returncode))
                 /\ cp.stderr # <<>> => Contains(ret[i].text, cp.stderr)
                 /\ cp.stderr = <<>> => Contains(ret[i].text, cp.stdout)

C3_Witness ==
    \E i \in Inv :
        /\ pc[i] = "done" /\ result[i].exited
        /\ result[i].returncode = 2
        /\ result[i].stderr = <<"e", "r", "r">>
        /\ result[i].stdout = <<"X">>
        /\ ret[i].exc = "RuntimeError"

\* C4: in both custom_scan tools, extra_args that shlex cannot split makes
\* the call fail with the parse error without subprocess.run being called.
C4_ParseBeforeSpawn ==
    \A i \in Inv :
        (IsCustom(i) /\ ~ShlexSplit(req[i].p.extra_args).ok) =>
            /\ runs[i] = 0
            /\ argv[i] = <<>>
            /\ pc[i] = "done"
            /\ ret[i].kind = "raise"
            /\ ret[i].exc = "ValueError"

C4_Witness ==
    \E i \in Inv :
        /\ IsDirsearch(i) /\ IsCustom(i) /\ pc[i] = "done"
        /\ req[i].p.extra_args = <<"a", " ", "'">>
        /\ ret[i].exc = "ValueError"
        /\ ret[i].msg = "No closing quotation"

\* an invocation of json_report_scan inside its with-block
InWithBlock(i) == IsJson(req[i]) /\ pc[i] \in {"run", "wait", "read", "cleanup"}

\* C5: under concurrent json_report_scan invocations, an invocation that has
\* left its with-block (returned or raised) owns no existing temporary
\* directory, an invocation inside it still has its own directory, which no
\* other invocation uses, and no report file outlives its directory.
C5_TempDirScoped ==
    /\ \A i \in Inv :
        /\ (IsJson(req[i]) /\ pc[i] = "done") =>
                /\ tmp[i] # 0
                /\ \A d \in DirNames : dirOwner[d] # i
        /\ InWithBlock(i) => dirOwner[tmp[i]] = i
        /\ \A j \in Inv \ {i} :
                (InWithBlock(i) /\ InWithBlock(j)) => tmp[i] # tmp[j]
    /\ \A d \in DirNames : report[d].exists => dirOwner[d] # 0

C5_Witness ==
    \E i \in Inv, j \in Inv :
        /\ i # j
        /\ IsJson(req[i]) /\ pc[i] = "done" /\ ret[i].exc = "RuntimeError"
        /\ IsJson(req[j]) /\ pc[j] = "read" /\ report[tmp[j]].exists
        /\ tmp[j] = tmp[i]

\* C6 as stated: a failed process start surfaces as the invoker's
\* RuntimeError, like a non-zero exit.
C6_SpawnFailureIsRuntimeError ==
    \A i \in Inv : spawnErr[i] # "" => ret[i].exc = "RuntimeError"

\* C6 amended: a failed process start raises the OSError subclass of its
\* errno (FileNotFoundError, PermissionError), which is not the RuntimeError
\* of a non-zero exit; no value is returned and no process has run.
C6_SpawnFailureIsOSError ==
    \A i \in Inv :
        spawnErr[i] # "" =>
            /\ ret[i].kind = "raise"
            /\ spawnErr[i] = "ENOENT" => ret[i].exc = "FileNotFoundError"
            /\ spawnErr[i] = "EACCES" => ret[i].exc = "PermissionError"
            /\ ret[i].exc # "RuntimeError"
            /\ ~result[i].exited

C6_Witness ==
    \E i \in Inv :
        /\ pc[i] = "done" /\ IsNmap(i)
        /\ spawnErr[i] = "EACCES"
        /\ ret[i].exc = "PermissionError"

\* the state a new invocation starts from
SlotClean(i) ==
    /\ req[i] = NoReq /\ args[i] = <<>> /\ argv[i] = <<>> /\ runs[i] = 0
    /\ spawnErr[i] = "" /\ result[i] = NoResult /\ ret[i] = NoRet /\ tmp[i] = 0

\* C7: no invocation calls subprocess.run more than once, and when the
\* invocation is over, whatever its outcome, the state the next one starts
\* from is the initial one: no temporary directory, no report, nothing kept.
C7_NoRetryNoResidue ==
    /\ \A i \in Inv : runs[i] <= 1
    /\ (\A i \in Inv : pc[i] = "idle") =>
            /\ \A i \in Inv : SlotClean(i)
            /\ \A d \in DirNames : dirOwner[d] = 0 /\ report[d] = NoFile

C7_Witness ==
    \E i \in Inv :
        /\ IsJson(req[i]) /\ pc[i] = "done" /\ runs[i] = 1
        /\ result[i].exited /\ result[i].returncode = 0
        /\ ret[i].exc = "FileNotFoundError"
        /\ \A d \in DirNames : dirOwner[d] = 0

\* C8 as stated: the list handed to subprocess.run starts with the binary
\* name and holds only str elements, for every tool and parameter set.
C8_AllTokensStrings ==
    \A i \in Inv :
        argv[i] # <<>> =>
            /\ argv[i][1] = PyStr(Binary(req[i].provider))
            /\ AllStr(argv[i])

\* the aggregator's setup has completed
SetupDone == setupRuns = 1 /\ "nmap" \in mounted /\ agg \in {"setup_done", "serving", "exited"}

C9_State ==
    /\ setupRuns <= 1
    /\ server # "not_started" => SetupDone
    /\ agg = "crashed" => server = "not_started"
    /\ \A i \in Inv : pc[i] # "idle" => (server # "not_started" /\ SetupDone)

C9_Step ==
    /\ server' # server =>
            \/ server = "not_started" /\ server' = "running"
            \/ server = "running" /\ server' = "stopped"
    /\ agg = "crashed" => agg' = "crashed"
    /\ setupRuns' >= setupRuns

\* C9: setup() runs once and has completed before the aggregator serves; no
\* request is served before that; after a failed setup the aggregator never
\* serves; the lifecycle only moves not started -> running -> stopped.
C9_SetupBeforeServing == [](C9_State) /\ [][C9_Step]_vars

C9_Witness ==
    \E i \in Inv :
        /\ server = "running" /\ setupRuns = 1 /\ mounted = {"nmap"}
        /\ IsNmap(i) /\ pc[i] = "wait"

\* C10: the seven tools that take show_errors emit the status filter exactly
\* when show_errors is False; authenticated_scan never emits it; custom_scan's
\* tokens are exactly -q -t 20 -u url followed by the split extra_args.
C10_PerVariantFilterPolicy ==
    \A i \in Inv :
        (IsDirsearch(i) /\ argv[i] # <<>>) =>
            /\ req[i].tool \in ShowErrorsTools =>
                    (HasFilter(argv[i]) <=> ~req[i].p.show_errors)
            /\ req[i].tool = "authenticated_scan" => ~HasFilter(argv[i])
            /\ req[i].tool = "custom_scan" =>
                    argv[i] = <<PyStr("dirsearch"), PyStr("-q"), PyStr("-t"), PyStr("20"),
                                PyStr("-u"), req[i].p.url>>
                              \o ShlexSplit(req[i].p.extra_args).tokens

C10_Witness ==
    \E i \in Inv :
        /\ IsDirsearch(i) /\ req[i].tool = "authenticated_scan" /\ pc[i] = "wait"
        /\ req[i].p.url = PyStr("--include-status")
        /\ req[i].p.extensions = PyStr("200-399")
        /\ ~HasFilter(argv[i])

====
